---- MODULE Spec2Model ----
(***************************************************************************)
(* Model of rescheduler_script.py: main() moves the meetings the calendar  *)
(* owner organizes away from the vacation dates onto the acceptable dates, *)
(* searching each acceptable date's window on a 15-minute grid and keeping *)
(* a run-scoped set of reserved slot starts.                               *)
(*                                                                         *)
(* Time: an instant is a number of minutes, date * MinutesPerDay + minute  *)
(* of the day, in the calendar's timezone.  The provider is taken to       *)
(* return dateTime strings in that timezone, and free/busy data of the     *)
(* attendees is provider state that the run itself does not change.        *)
(***************************************************************************)
EXTENDS Integers, Sequences, FiniteSets, TLC

(* ----------------------------- bounds ---------------------------------- *)
\* number of events stored by the provider
NumEvents == 2
\* provider calls that may fail (HttpError) during one run
MaxFailures == 1

(* ------------------------- program constants --------------------------- *)
Step == 15
LunchStart == 720
LunchEnd == 780
MinutesPerDay == 1440
\* Python's None, for a slot
None == -1

Owner == "me@x"
Attendee == "a@x"

(* ------------------------------ inputs --------------------------------- *)
\* datetime.strptime(s.strip(), '%Y-%m-%d'): the strings that parse, and the
\* date (a day number) each one denotes; any other string raises ValueError
StrpDate ==
    [s \in {"2024-01-01", " 2024-01-02", "2024-01-02", "2024-01-03"} |->
        CASE s = "2024-01-01" -> 1
          [] s = " 2024-01-02" -> 2
          [] s = "2024-01-02" -> 2
          [] s = "2024-01-03" -> 3]

\* datetime.strptime(s, '%H:%M'): minute of the day
StrpTime ==
    [s \in {"09:00", "10:00", "11:45", "13:45"} |->
        CASE s = "09:00" -> 540
          [] s = "10:00" -> 600
          [] s = "11:45" -> 705
          [] s = "13:45" -> 825]

\* the arguments of main: the two comma-separated lists, already split at the
\* commas, and the two times of day.  Well-formed combinations, and malformed ones
ArgChoices ==
    ( { <<"2024-01-01">>, <<"2024-01-01", " 2024-01-02">> }
      \X { <<"2024-01-02">>, <<"2024-01-02", "2024-01-03">>,
           <<"2024-01-03", "2024-01-02">> }
      \X { <<"09:00", "10:00">>, <<"11:45", "13:45">> } )
    \cup
    { << <<"01/01/2024">>, <<"2024-01-02">>, <<"09:00", "10:00">> >>,
      << <<"2024-01-01", "">>, <<"2024-01-02">>, <<"09:00", "10:00">> >>,
      << <<"2024-01-01">>, <<"2024-01-02", "tomorrow">>, <<"09:00", "10:00">> >>,
      << <<"2024-01-01">>, <<"2024-01-02">>, <<"9am", "10:00">> >>,
      << <<"2024-01-01">>, <<"2024-01-02">>, <<"09:00", "noon">> >>,
      << <<"someday">>, <<"tomorrow">>, <<"9am", "noon">> >> }

(* ------------------------- provider contents --------------------------- *)
Dt(date, minute) == date * MinutesPerDay + minute
SecondsPerMinute == 60

Event(org, etype, transp, allDay, summ, att, s, e) ==
    [organizer |-> org, eventType |-> etype, transparency |-> transp,
     allDay |-> allDay, summary |-> summ, attendees |-> att,
     start |-> s, end |-> e, end_seconds |-> 0]

\* the events the provider may hold when the run starts
EventChoices ==
    { Event(Owner, "default", "opaque", FALSE, TRUE, {Attendee}, Dt(1, 540), Dt(1, 570)),
      \* a meeting from 10:00:00 to 10:20:30
      [Event(Owner, "default", "opaque", FALSE, TRUE, {}, Dt(1, 600), Dt(1, 620))
          EXCEPT !.end_seconds = 30],
      Event(Owner, "default", "opaque", FALSE, FALSE, {}, Dt(1, 840), Dt(1, 870)),
      Event(Owner, "default", "opaque", TRUE, TRUE, {}, Dt(1, 0), Dt(2, 0)),
      Event(Owner, "focusTime", "opaque", FALSE, TRUE, {}, Dt(2, 540), Dt(2, 565)),
      Event("other@x", "default", "transparent", FALSE, TRUE, {Owner}, Dt(2, 540), Dt(2, 600)),
      Event(Owner, "default", "opaque", FALSE, TRUE, {Attendee}, Dt(2, 780), Dt(2, 810)) }

\* busy intervals of the attendee's own calendar
BusyChoices ==
    { {}, { <<Dt(2, 0), Dt(3, 0)>> }, { <<Dt(2, 550), Dt(2, 560)>> } }

(* --------------------------- pure functions --------------------------- *)
\* datetime.isoformat(): the text of an instant, compared as text at line 170
\* (a sequence of fields, most significant first)
IsoSeconds(t, seconds) == <<t \div MinutesPerDay, t % MinutesPerDay, seconds>>
Iso(t) == IsoSeconds(t, 0)

\* the 'date' text of an all-day event
IsoDate(t) == <<t \div MinutesPerDay>>

\* Python's < on str: lexicographic, a proper prefix is smaller
StrLess(a, b) ==
    \E i \in 1..(Len(a) + 1) :
        /\ \A j \in 1..(i - 1) : j <= Len(b) /\ a[j] = b[j]
        /\ \/ i = Len(a) + 1 /\ Len(b) >= i
           \/ i <= Len(a) /\ i <= Len(b) /\ a[i] < b[i]

\* event['start'].get('dateTime', event['start'].get('date'))
StartText(e) == IF e.allDay THEN IsoDate(e.start) ELSE Iso(e.start)
EndText(e) == IF e.allDay THEN IsoDate(e.end) ELSE IsoSeconds(e.end, e.end_seconds)

\* ids of S ordered by start time (orderBy='startTime'), ties by id
RECURSIVE SortedIds(_, _)
SortedIds(evs, S) ==
    IF S = {} THEN <<>>
    ELSE LET m == CHOOSE i \in S : \A j \in S :
                      \/ evs[i].start < evs[j].start
                      \/ evs[i].start = evs[j].start /\ i <= j
         IN <<m>> \o SortedIds(evs, S \ {m})

\* an event as the provider returns it
Item(evs, i) ==
    [id |-> i, organizer |-> evs[i].organizer, eventType |-> evs[i].eventType,
     transparency |-> evs[i].transparency, allDay |-> evs[i].allDay,
     summary |-> evs[i].summary, attendees |-> evs[i].attendees,
     start |-> evs[i].start, end |-> evs[i].end, end_seconds |-> evs[i].end_seconds]

\* service.events().list(timeMin, timeMax, singleEvents, orderBy='startTime')
ListEvents(evs, timeMin, timeMax) ==
    LET ids == SortedIds(evs, {i \in DOMAIN evs :
                                  /\ evs[i].end * SecondsPerMinute + evs[i].end_seconds
                                         > timeMin * SecondsPerMinute
                                  /\ evs[i].start < timeMax})
    IN [k \in 1..Len(ids) |-> Item(evs, ids[k])]

\* service.freebusy().query(timeMin, timeMax, items): the calendars reported busy
BusyCalendars(bz, attendees_emails, timeMin, timeMax) ==
    {a \in attendees_emails :
        a = Attendee /\ \E iv \in bz : iv[1] < timeMax /\ iv[2] > timeMin}

Call(op, a, b) == [op |-> op, a |-> a, b |-> b]

\* get_meetings_to_reschedule; fail: the listing raises HttpError
MeetingFilter(event) == event.eventType = "default" /\ event.organizer = Owner

GetMeetingsToReschedule(evs, vacation_date, fail) ==
    IF fail THEN <<>>
    ELSE SelectSeq(ListEvents(evs, Dt(vacation_date, 0), Dt(vacation_date + 1, 0)),
                   MeetingFilter)

\* get_meeting_duration (the event has 'dateTime' fields)
\* int(total_seconds() / 60): whole minutes, the remainder dropped
GetMeetingDuration(event) ==
    ((event.end - event.start) * SecondsPerMinute + event.end_seconds) \div SecondsPerMinute

\* (Conflict as a test that counts transparent events would have it)
ConflictAny(listed, slot_start, slot_end) ==
    \E k \in 1..Len(listed) :
        /\ StrLess(Iso(slot_start), EndText(listed[k]))
        /\ StrLess(StartText(listed[k]), Iso(slot_end))

\* (Conflict as a search that skips the owner's events would have it)
ConflictNever(listed, slot_start, slot_end) == FALSE

\* lines 162-173: the slot conflicts with a listed event not marked transparent
Conflict(listed, slot_start, slot_end) ==
    \E k \in 1..Len(listed) :
        /\ listed[k].transparency # "transparent"
        /\ StrLess(Iso(slot_start), EndText(listed[k]))
        /\ StrLess(StartText(listed[k]), Iso(slot_end))

\* (Lunch as a test of the slot's end alone would have it)
LunchEndOnly(c, slot_start, slot_end) ==
    slot_end > c.lunch_start /\ slot_end <= c.lunch_end

\* (Lunch as a test of the slot's start alone would have it)
LunchStartOnly(c, slot_start, slot_end) ==
    slot_start >= c.lunch_start /\ slot_start < c.lunch_end

\* lines 147, 153: the checks made before the owner's events are looked at
Lunch(c, slot_start, slot_end) ==
    slot_start < c.lunch_end /\ slot_end > c.lunch_start

\* (Reserved as a search that does not consult the ledger would have it)
ReservedNever(c, slot_start) == FALSE

\* line 153: the candidate's start is in the ledger
Reserved(c, slot_start) == slot_start \in c.reserved_slots

\* (Scan as a loop that catches the HttpError per candidate would have it)
RECURSIVE ScanPerCandidate(_, _, _)
ScanPerCandidate(c, current_time, queries) ==
    IF current_time + c.duration > c.end_time
    THEN [slot |-> None, error |-> FALSE, queries |-> queries]
    ELSE LET slot_start == current_time
             slot_end == current_time + c.duration
             q == Append(queries, Call("freebusy", slot_start, slot_end))
         IN IF \/ slot_start < c.lunch_end /\ slot_end > c.lunch_start
               \/ slot_start \in c.reserved_slots
               \/ Conflict(c.listed, slot_start, slot_end)
            THEN ScanPerCandidate(c, current_time + Step, queries)
            ELSE IF Len(q) = c.failAt
            THEN LET r == ScanPerCandidate(c, current_time + Step, q)
                 IN [slot |-> r.slot, error |-> TRUE, queries |-> r.queries]
            ELSE IF BusyCalendars(c.busy, c.attendees, slot_start, slot_end) # {}
            THEN ScanPerCandidate(c, current_time + Step, q)
            ELSE [slot |-> slot_start, error |-> FALSE, queries |-> q]

\* line 141: the loop condition, the candidate ends inside the window
InWindowStartOnly(c, current_time) == current_time <= c.end_time
InWindow(c, current_time) == current_time + c.duration <= c.end_time

\* current_time += timedelta(minutes=15)
NextCandidateAfterSlot(c, current_time) == current_time + c.duration
NextCandidate(c, current_time) == current_time + Step

\* the while loop of find_available_slot, lines 141-202.
\* c: the values fixed for the call; queries: free/busy queries issued so far
RECURSIVE Scan(_, _, _)
Scan(c, current_time, queries) ==
    IF ~InWindow(c, current_time)
    THEN [slot |-> None, error |-> FALSE, queries |-> queries]
    ELSE LET slot_start == current_time
             slot_end == current_time + c.duration
         IN IF Lunch(c, slot_start, slot_end)
            THEN Scan(c, NextCandidate(c, current_time), queries)
            ELSE IF Reserved(c, slot_start)
            THEN Scan(c, NextCandidate(c, current_time), queries)
            ELSE IF Conflict(c.listed, slot_start, slot_end)
            THEN Scan(c, NextCandidate(c, current_time), queries)
            ELSE LET q == Append(queries, Call("freebusy", slot_start, slot_end))
                 IN IF Len(q) = c.failAt
                    THEN [slot |-> None, error |-> TRUE, queries |-> q]
                    ELSE IF BusyCalendars(c.busy, c.attendees, slot_start, slot_end) # {}
                    THEN Scan(c, NextCandidate(c, current_time), q)
                    ELSE [slot |-> slot_start, error |-> FALSE, queries |-> q]

\* find_available_slot.  failAt: which provider call of this search raises
\* HttpError (0: the event listing; k: the k-th free/busy query; NoFail: none)
NoFail == -1

FindAvailableSlot(evs, bz, new_date, duration, tstart, tend, attendees, reserved, failAt) ==
    LET start_time == Dt(new_date, tstart)
        end_time == Dt(new_date, tend)
        listing == Call("list", start_time, end_time)
    IN IF failAt = 0
       THEN [slot |-> None, error |-> TRUE, calls |-> <<listing>>]
       ELSE LET listed == ListEvents(evs, start_time, end_time)
                r == Scan([end_time |-> end_time, duration |-> duration,
                           lunch_start |-> Dt(new_date, LunchStart),
                           lunch_end |-> Dt(new_date, LunchEnd),
                           listed |-> listed, attendees |-> attendees,
                           reserved_slots |-> reserved, busy |-> bz,
                           failAt |-> failAt],
                          start_time, <<>>)
            IN [slot |-> r.slot, error |-> r.error, calls |-> <<listing>> \o r.queries]

\* lines 272-296: the three parsing blocks
Strptime(table, s) == IF s \in DOMAIN table THEN table[s] ELSE None

\* (AllParse as a check of the first element only would have it)
AllParseFirst(strs, table) == strs[1] \in DOMAIN table

\* no element of the list raises ValueError
AllParse(strs, table) == \A k \in 1..Len(strs) : strs[k] \in DOMAIN table
ParseAll(strs, table) == [k \in 1..Len(strs) |-> Strptime(table, strs[k])]

\* (AddReserved as a ledger that holds the latest slot only would have it)
AddReservedLatest(reserved, slot) == {slot}

\* (AddReserved as a run that records no reservation would have it)
AddReservedNever(reserved, slot) == reserved

\* line 322: reserved_slots.add(new_start_time)
AddReserved(reserved, slot) == reserved \cup {slot}

\* (WritesEnabled as a run that ignores the dry_run flag would have it)
WritesAlways(dry) == TRUE

\* line 323: only a run that is not a dry run writes to the provider
WritesEnabled(dry) == ~dry

\* (MoreDates as a loop that gives up after the first date would have it)
MoreDatesNever(i, dates) == FALSE

\* line 315: the for loop has another acceptable date to try
MoreDates(i, dates) == i < Len(dates)

\* (UpdateEvent as a provider that stores the body before it fails would have it)
UpdateEventAlways(evs, id, new_start_time, new_end_time, ok) ==
    [evs EXCEPT ![id].start = new_start_time, ![id].end = new_end_time,
                     ![id].end_seconds = 0]

\* service.events().update(eventId, body): the stored event takes the new times
\* when the call succeeds, and is left alone when it raises HttpError
UpdateEvent(evs, id, new_start_time, new_end_time, ok) ==
    IF ok
    THEN [evs EXCEPT ![id].start = new_start_time, ![id].end = new_end_time,
                     ![id].end_seconds = 0]
    ELSE evs

VARIABLES
    events,                 \* provider: event id -> event
    busy,                   \* provider: busy intervals of Attendee
    vacation_dates_str, acceptable_dates_str, time_slot_start_str,
    time_slot_end_str, dry_run,                      \* arguments of main
    pc,                     \* position in main
    vacation_dates, acceptable_dates, time_slot_start, time_slot_end,
    reserved_slots,
    vi, meetings_to_reschedule, ei, ai, available_slot,  \* loop positions
    log_messages,
    calls,                  \* history: provider operations invoked in this run
    assigned,               \* history: slots chosen in this run
    outcome,                \* history: terminal state of each processed meeting
    searches,               \* history: window searches of the current meeting
    selected,               \* history: ids of the meetings selected so far
    failures,               \* provider failures so far in this run
    first_run               \* history: what an earlier invocation computed

inputs == <<vacation_dates_str, acceptable_dates_str, time_slot_start_str,
            time_slot_end_str>>
provider == <<events, busy>>
parsed == <<vacation_dates, acceptable_dates, time_slot_start, time_slot_end>>
loopvars == <<vi, meetings_to_reschedule, ei, ai, available_slot>>
history == <<calls, assigned, outcome, searches, selected>>
vars == <<events, busy, vacation_dates_str, acceptable_dates_str,
          time_slot_start_str, time_slot_end_str, dry_run, pc,
          vacation_dates, acceptable_dates, time_slot_start, time_slot_end,
          reserved_slots, vi, meetings_to_reschedule, ei, ai, available_slot,
          log_messages, calls, assigned, outcome, searches, selected, failures,
          first_run>>

EventIds == 1..NumEvents

\* state of main at entry
RunInit ==
    /\ pc = "service"
    /\ vacation_dates = <<>>
    /\ acceptable_dates = <<>>
    /\ time_slot_start = None
    /\ time_slot_end = None
    /\ reserved_slots = {}
    /\ vi = 1
    /\ meetings_to_reschedule = <<>>
    /\ ei = 1
    /\ ai = 1
    /\ available_slot = None
    /\ log_messages = <<>>
    /\ calls = <<>>
    /\ assigned = <<>>
    /\ outcome = <<>>
    /\ searches = <<>>
    /\ selected = <<>>
    /\ failures = 0

Init ==
    /\ events \in [EventIds -> EventChoices]
    /\ \A i, j \in EventIds : i < j => events[i].start <= events[j].start
    /\ busy \in BusyChoices
    /\ \E a \in ArgChoices :
           /\ vacation_dates_str = a[1]
           /\ acceptable_dates_str = a[2]
           /\ time_slot_start_str = a[3][1]
           /\ time_slot_end_str = a[3][2]
    /\ dry_run \in BOOLEAN
    /\ first_run = <<>>
    /\ RunInit

\* log(level, message)
Log(msg) == log_messages' = Append(log_messages, msg)

\* the finally clause: main returns the transcript
Return(msg) ==
    /\ Log(msg)
    /\ pc' = "done"

GetService ==
    /\ pc = "service"
    /\ \E ok \in BOOLEAN :
         IF ok
         THEN /\ pc' = "timezone"
              /\ UNCHANGED log_messages
         ELSE Return("error: service")
    /\ UNCHANGED <<provider, inputs, dry_run, parsed, reserved_slots, loopvars,
                   history, failures, first_run>>

\* lines 261-268: service.calendars().get(calendarId='primary')
FetchTimezone ==
    /\ pc = "timezone"
    /\ calls' = Append(calls, Call("timezone", 0, 0))
    /\ \E ok \in BOOLEAN :
         IF ok
         THEN /\ pc' = "parse"
              /\ Log("info: timezone")
              /\ UNCHANGED failures
         ELSE /\ failures < MaxFailures
              /\ failures' = failures + 1
              /\ Return("error: timezone")
    /\ UNCHANGED <<provider, inputs, dry_run, parsed, reserved_slots, loopvars,
                   assigned, outcome, searches, selected, first_run>>

\* lines 270-298: parse the four arguments, then reserved_slots = set()
ParseInputs ==
    /\ pc = "parse"
    /\ IF ~AllParse(vacation_dates_str, StrpDate)
       THEN /\ Return("error: vacation dates")
            /\ UNCHANGED <<parsed, reserved_slots>>
       ELSE IF ~AllParse(acceptable_dates_str, StrpDate)
       THEN /\ Return("error: acceptable dates")
            /\ vacation_dates' = ParseAll(vacation_dates_str, StrpDate)
            /\ UNCHANGED <<acceptable_dates, time_slot_start, time_slot_end,
                           reserved_slots>>
       ELSE IF ~(time_slot_start_str \in DOMAIN StrpTime
                 /\ time_slot_end_str \in DOMAIN StrpTime)
       THEN /\ Return("error: time slot")
            /\ vacation_dates' = ParseAll(vacation_dates_str, StrpDate)
            /\ acceptable_dates' = ParseAll(acceptable_dates_str, StrpDate)
            /\ UNCHANGED <<time_slot_start, time_slot_end, reserved_slots>>
       ELSE /\ vacation_dates' = ParseAll(vacation_dates_str, StrpDate)
            /\ acceptable_dates' = ParseAll(acceptable_dates_str, StrpDate)
            /\ time_slot_start' = Strptime(StrpTime, time_slot_start_str)
            /\ time_slot_end' = Strptime(StrpTime, time_slot_end_str)
            /\ reserved_slots' = {}
            /\ pc' = "list"
            /\ UNCHANGED log_messages
    /\ UNCHANGED <<provider, inputs, dry_run, loopvars, history, failures, first_run>>

\* the uncaught exception of the loop body: line 333, then the finally clause
Crash == Return("error: unexpected")

\* the end of one meeting's turn: the next meeting of the day, or the next
\* vacation date, or the end of the run
AfterMeeting ==
    /\ searches' = <<>>
    /\ available_slot' = None
    /\ UNCHANGED meetings_to_reschedule
    /\ IF ei < Len(meetings_to_reschedule)
       THEN /\ ei' = ei + 1
            /\ ai' = 1
            /\ pc' = "search"
            /\ UNCHANGED vi
       ELSE /\ vi' = vi + 1
            /\ ei' = 1
            /\ ai' = 1
            /\ pc' = IF vi < Len(vacation_dates) THEN "list" ELSE "done"

\* line 301: the vacation dates are taken in the order given
VacationDateReversed(dates, i) == dates[Len(dates) + 1 - i]
VacationDate(dates, i) == dates[i]

\* lines 301-307: the next vacation date and its meetings
ListMeetings ==
    /\ pc = "list"
    /\ \E fail \in BOOLEAN :
         /\ fail => failures < MaxFailures
         /\ failures' = IF fail THEN failures + 1 ELSE failures
         /\ LET found == GetMeetingsToReschedule(events, VacationDate(vacation_dates, vi), fail)
            IN /\ meetings_to_reschedule' = found
               /\ selected' = selected \o [k \in 1..Len(found) |-> found[k].id]
               /\ calls' = calls \o
                    <<Call("list", Dt(VacationDate(vacation_dates, vi), 0),
                           Dt(VacationDate(vacation_dates, vi) + 1, 0))>>
               /\ IF found = <<>>
                  THEN /\ log_messages' = log_messages \o <<"info: meetings", "warning: none">>
                       /\ vi' = vi + 1
                       /\ pc' = IF vi < Len(vacation_dates) THEN "list" ELSE "done"
                  ELSE /\ log_messages' = Append(log_messages, "info: meetings")
                       /\ pc' = "search"
                       /\ UNCHANGED vi
    /\ ei' = 1
    /\ ai' = 1
    /\ UNCHANGED <<provider, inputs, dry_run, parsed, reserved_slots, available_slot,
                   assigned, outcome, searches, first_run>>

\* failure points of one search: the listing, or one of the first free/busy queries
MaxFailPoint == 1
FailPoints == {NoFail} \cup 0..MaxFailPoint

\* lines 315-317: find_available_slot for the current meeting and acceptable date
Search ==
    /\ pc = "search"
    /\ LET event == meetings_to_reschedule[ei]
           new_date == acceptable_dates[ai]
       IN IF event.allDay
          THEN \* get_meeting_duration: event['start']['dateTime'] raises KeyError
               /\ Crash
               /\ UNCHANGED <<available_slot, calls, searches, failures>>
          ELSE \E failAt \in FailPoints :
               LET r == FindAvailableSlot(events, busy, new_date, GetMeetingDuration(event),
                                          time_slot_start, time_slot_end, event.attendees,
                                          reserved_slots, failAt)
               IN /\ r.error => failures < MaxFailures
                  /\ ~r.error => failAt = NoFail
                  /\ failures' = IF r.error THEN failures + 1 ELSE failures
                  /\ available_slot' = r.slot
                  /\ calls' = calls \o r.calls
                  /\ searches' = Append(searches,
                        [date |-> new_date,
                         start_time |-> Dt(new_date, time_slot_start),
                         end_time |-> Dt(new_date, time_slot_end),
                         duration |-> GetMeetingDuration(event),
                         attendees |-> event.attendees, reserved |-> reserved_slots,
                         events |-> events, slot |-> r.slot, error |-> r.error,
                         calls |-> r.calls])
                  /\ pc' = "check"
                  /\ UNCHANGED log_messages
    /\ UNCHANGED <<provider, inputs, dry_run, parsed, reserved_slots, vi,
                   meetings_to_reschedule, ei, ai, assigned, outcome, selected,
                   first_run>>

\* the record of a meeting whose turn has ended.  committed: the provider took
\* the new times (reschedule_meeting returned the updated event)
Done(event, state, committed) ==
    [id |-> event.id, state |-> state, event |-> event,
     slot |-> IF state = "RESOLVED" THEN available_slot ELSE None,
     committed |-> committed, searches |-> searches]

\* lines 319-331: reserve the slot, or go on to the next acceptable date
Check ==
    /\ pc = "check"
    /\ LET event == meetings_to_reschedule[ei]
       IN IF available_slot # None /\ available_slot \notin reserved_slots
          THEN /\ reserved_slots' = AddReserved(reserved_slots, available_slot)
               /\ assigned' = Append(assigned,
                      [id |-> event.id, start |-> available_slot,
                       end |-> available_slot + GetMeetingDuration(event)])
               /\ IF WritesEnabled(dry_run)
                  THEN /\ pc' = "write"
                       /\ UNCHANGED <<log_messages, outcome, loopvars, searches>>
                  ELSE IF ~event.summary
                  THEN \* line 324: event['summary'] raises KeyError
                       /\ Crash
                       /\ UNCHANGED <<outcome, loopvars, searches>>
                  ELSE /\ Log("info: dry run")
                       /\ outcome' = Append(outcome, Done(event, "RESOLVED", FALSE))
                       /\ AfterMeeting
          ELSE /\ UNCHANGED <<reserved_slots, assigned>>
               /\ IF MoreDates(ai, acceptable_dates)
                  THEN /\ ai' = ai + 1
                       /\ pc' = "search"
                       /\ IF available_slot \in reserved_slots
                          THEN Log("info: already reserved")
                          ELSE UNCHANGED log_messages
                       /\ UNCHANGED <<vi, meetings_to_reschedule, ei, available_slot,
                                      outcome, searches>>
                  ELSE IF ~event.summary
                  THEN \* line 331: event['summary'] raises KeyError
                       /\ Crash
                       /\ UNCHANGED <<outcome, loopvars, searches>>
                  ELSE /\ log_messages' = log_messages \o
                              (IF available_slot \in reserved_slots
                               THEN <<"info: already reserved">> ELSE <<>>) \o
                              <<"warning: no slot">>
                       /\ outcome' = Append(outcome, Done(event, "UNRESOLVED", FALSE))
                       /\ AfterMeeting
    /\ UNCHANGED <<provider, inputs, dry_run, parsed, calls, selected, failures,
                   first_run>>

\* reschedule_meeting, lines 209-230, and the break at line 327
Write ==
    /\ pc = "write"
    /\ LET event == meetings_to_reschedule[ei]
           new_start_time == available_slot
           new_end_time == new_start_time + GetMeetingDuration(event)
       IN IF ~event.summary
          THEN \* line 215: event['summary'] raises KeyError
               /\ Crash
               /\ UNCHANGED <<events, calls, outcome, loopvars, searches, failures>>
          ELSE /\ calls' = Append(calls, Call("update", event.id, new_start_time))
               /\ \E ok \in BOOLEAN :
                    /\ ~ok => failures < MaxFailures
                    /\ failures' = IF ok THEN failures ELSE failures + 1
                    /\ events' = UpdateEvent(events, event.id, new_start_time,
                                             new_end_time, ok)
                    /\ outcome' = Append(outcome, Done(event, "RESOLVED", ok))
               /\ AfterMeeting
               /\ UNCHANGED log_messages
    /\ UNCHANGED <<busy, inputs, dry_run, parsed, reserved_slots, assigned, selected,
                   first_run>>

Next ==
    \/ GetService
    \/ FetchTimezone
    \/ ParseInputs
    \/ ListMeetings
    \/ Search
    \/ Check
    \/ Write


Spec == Init /\ [][Next]_vars

\* what a run chose for each meeting whose turn ended
Choices(o) ==
    [k \in DOMAIN o |-> [id |-> o[k].id, state |-> o[k].state, slot |-> o[k].slot]]

\* the run got a service object and no provider call of it failed
Undisturbed == failures = 0 /\ \A k \in DOMAIN log_messages : log_messages[k] # "error: service"

\* main is called a second time with the same arguments, now as a live run,
\* after a dry run has returned (line 244: dry_run is an argument of the call)
InvokeAgain ==
    /\ pc = "done"
    /\ dry_run
    /\ first_run = <<>>
    /\ first_run' = <<[choices |-> Choices(outcome), undisturbed |-> Undisturbed,
                       events |-> events]>>
    /\ dry_run' = FALSE
    /\ pc' = "service"
    /\ vacation_dates' = <<>>
    /\ acceptable_dates' = <<>>
    /\ time_slot_start' = None
    /\ time_slot_end' = None
    /\ reserved_slots' = {}
    /\ vi' = 1
    /\ meetings_to_reschedule' = <<>>
    /\ ei' = 1
    /\ ai' = 1
    /\ available_slot' = None
    /\ log_messages' = <<>>
    /\ calls' = <<>>
    /\ assigned' = <<>>
    /\ outcome' = <<>>
    /\ searches' = <<>>
    /\ selected' = <<>>
    /\ failures' = 0
    /\ UNCHANGED <<provider, inputs>>

InitPair == Init /\ dry_run

NextPair == Next \/ InvokeAgain

\* a dry run followed by a live run with the same arguments
SpecPair == InitPair /\ [][NextPair]_vars

\* the vacation dates a second call may append to --vacation_dates
MoreVacationDates == {" 2024-01-02"}

\* main is called a second time, again as a dry run, with one more vacation
\* date at the end of --vacation_dates and everything else as before
InvokeLonger ==
    /\ pc = "done"
    /\ dry_run
    /\ first_run = <<>>
    /\ \E more \in MoreVacationDates :
          vacation_dates_str' = Append(vacation_dates_str, more)
    /\ first_run' = <<[choices |-> Choices(outcome), undisturbed |-> Undisturbed,
                       events |-> events]>>
    /\ pc' = "service"
    /\ vacation_dates' = <<>>
    /\ acceptable_dates' = <<>>
    /\ time_slot_start' = None
    /\ time_slot_end' = None
    /\ reserved_slots' = {}
    /\ vi' = 1
    /\ meetings_to_reschedule' = <<>>
    /\ ei' = 1
    /\ ai' = 1
    /\ available_slot' = None
    /\ log_messages' = <<>>
    /\ calls' = <<>>
    /\ assigned' = <<>>
    /\ outcome' = <<>>
    /\ searches' = <<>>
    /\ selected' = <<>>
    /\ failures' = 0
    /\ UNCHANGED <<provider, acceptable_dates_str, time_slot_start_str,
                   time_slot_end_str, dry_run>>

InitPrefix == Init /\ Len(vacation_dates_str) = 1

NextPrefix == Next \/ InvokeLonger

\* a run; when it was a dry run, a second dry run whose vacation dates extend
\* the first run's
SpecPrefix == InitPrefix /\ [][NextPrefix]_vars

(* ------------------------------ claims --------------------------------- *)
\* C1: no two assignments of a run have the same slot-start instant.
C1_NoDuplicateStarts ==
    \A i, j \in DOMAIN assigned :
        i # j => assigned[i].start # assigned[j].start

\* two meetings were assigned in one window, the later one past the earlier
\* one's reserved start
C1_Witness ==
    /\ pc = "done"
    /\ \E i, j \in DOMAIN assigned :
         /\ i < j
         /\ assigned[i].id # assigned[j].id
         /\ assigned[i].start \div MinutesPerDay = assigned[j].start \div MinutesPerDay
         /\ \E k \in DOMAIN outcome :
              /\ outcome[k].id = assigned[j].id
              /\ outcome[k].slot = assigned[j].start
              /\ \E n \in DOMAIN outcome[k].searches :
                   /\ outcome[k].searches[n].slot = assigned[j].start
                   /\ outcome[k].searches[n].start_time = assigned[i].start
                   /\ assigned[i].start \in outcome[k].searches[n].reserved

\* the meetings that ended RESOLVED, with the interval each was given
Resolved == {k \in DOMAIN outcome : outcome[k].state = "RESOLVED"}
NewStart(k) == outcome[k].slot
NewEnd(k) == outcome[k].slot + GetMeetingDuration(outcome[k].event)

\* C2: the intervals [newStart, newStart + duration) of two different meetings
\* that were assigned slots in one run do not overlap.
C2_NoOverlap ==
    \A i, j \in Resolved :
        outcome[i].id # outcome[j].id =>
            ~(NewStart(i) < NewEnd(j) /\ NewStart(j) < NewEnd(i))

\* the ranges of two sequences are disjoint
Disjoint(a, b) == \A i \in DOMAIN a : \A j \in DOMAIN b : a[i] # b[j]

\* C3: a live run makes the choices the dry run made with the same arguments
\* on the same provider state (here: when no acceptable date is a vacation date).
C3_SameChoices ==
    (/\ first_run # <<>>
     /\ pc = "done"
     /\ Disjoint(vacation_dates, acceptable_dates)
     /\ first_run[1].undisturbed
     /\ Undisturbed) => Choices(outcome) = first_run[1].choices

\* C4: a dry run never invokes the provider's update and leaves the stored
\* events as they are, in every step.
C4_DryRunNeverWrites ==
    [][dry_run => /\ events' = events
                  /\ \A k \in DOMAIN calls' : calls'[k].op # "update"]_vars

\* a dry run that ended with a meeting assigned
C4_Witness ==
    /\ dry_run
    /\ pc = "done"
    /\ Resolved # {}

\* every window search of the run so far
AllSearches ==
    {searches[n] : n \in DOMAIN searches} \cup
    UNION {{outcome[k].searches[n] : n \in DOMAIN outcome[k].searches} : k \in DOMAIN outcome}

\* the grid candidates of a searched window
Grid(s) == {s.start_time + k * Step : k \in 0..((s.end_time - s.start_time) \div Step)}

\* [a1, a2) against an event whose end may carry seconds
OverlapsEvent(a1, a2, ev) ==
    /\ a1 * SecondsPerMinute < ev.end * SecondsPerMinute + ev.end_seconds
    /\ ev.start < a2

Overlap(a1, a2, b1, b2) == a1 < b2 /\ b1 < a2

\* candidate t of search s ends inside the window, is clear of the blackout, is
\* not reserved, overlaps no busy event of the owner and has no busy attendee
CandidateOK(s, t) ==
    /\ t + s.duration <= s.end_time
    /\ ~Overlap(t, t + s.duration, Dt(s.date, LunchStart), Dt(s.date, LunchEnd))
    /\ t \notin s.reserved
    /\ \A i \in DOMAIN s.events :
          \/ s.events[i].transparency = "transparent"
          \/ ~OverlapsEvent(t, t + s.duration, s.events[i])
    /\ BusyCalendars(busy, s.attendees, t, t + s.duration) = {}

Free(s) == {t \in Grid(s) : CandidateOK(s, t)}

\* the search failed at a free/busy query; the candidate it was asked for
FailedAtQuery(s) == s.error /\ s.calls[Len(s.calls)].op = "freebusy"
FailedCandidate(s) == s.calls[Len(s.calls)].a

\* C5: a provider failure while one candidate is checked blocks that candidate
\* only, so a search returns a slot when a later candidate of the window is free.
C5_NextCandidateTried ==
    \A s \in AllSearches :
        (FailedAtQuery(s) /\ \E t \in Free(s) : t > FailedCandidate(s)) => s.slot # None

\* C5 as amended: a provider failure ends the search of that window with no
\* slot, and the meeting goes on to the next acceptable date.
C5_WindowAbandoned ==
    /\ \A s \in AllSearches : s.error => s.slot = None
    /\ \A k \in DOMAIN outcome : \A n \in DOMAIN outcome[k].searches :
          (outcome[k].searches[n].error /\ n < Len(acceptable_dates))
              => n + 1 \in DOMAIN outcome[k].searches

\* a window with a free later candidate was given up at a failed query, and the
\* meeting was placed on the next acceptable date
C5_Witness ==
    \E k \in Resolved : \E n \in DOMAIN outcome[k].searches :
        LET s == outcome[k].searches[n]
        IN /\ FailedAtQuery(s)
           /\ \E t \in Free(s) : t > FailedCandidate(s)
           /\ n + 1 = Len(outcome[k].searches)
           /\ outcome[k].slot \div MinutesPerDay = acceptable_dates[n + 1]

\* one of the four arguments does not have the required format
Malformed ==
    \/ \E k \in DOMAIN vacation_dates_str : vacation_dates_str[k] \notin DOMAIN StrpDate
    \/ \E k \in DOMAIN acceptable_dates_str : acceptable_dates_str[k] \notin DOMAIN StrpDate
    \/ time_slot_start_str \notin DOMAIN StrpTime
    \/ time_slot_end_str \notin DOMAIN StrpTime

ValidationErrors ==
    {"error: vacation dates", "error: acceptable dates", "error: time slot"}

\* C6: when the validation of a malformed argument aborts the run, main returns
\* without having invoked any provider operation.
C6_NoProviderIO ==
    (/\ Malformed
     /\ pc = "done"
     /\ log_messages[Len(log_messages)] \in ValidationErrors) => calls = <<>>

\* C6 as amended: with a malformed argument, the timezone fetch is the only
\* provider operation of the run and no meeting is selected or processed.
C6_OnlyTimezone ==
    Malformed => /\ \A k \in DOMAIN calls : calls[k].op = "timezone"
                 /\ Len(calls) <= 1
                 /\ selected = <<>>
                 /\ outcome = <<>>
                 /\ assigned = <<>>
                 /\ pc \in {"service", "timezone", "parse", "done"}

\* the run was aborted by the validation of an argument, after the timezone fetch
C6_Witness ==
    /\ Malformed
    /\ pc = "done"
    /\ calls = <<Call("timezone", 0, 0)>>
    /\ log_messages[Len(log_messages)] \in ValidationErrors

Uncommitted(o) == o.state = "RESOLVED" /\ ~o.committed

\* C7: in a live run, a failed write leaves the stored events as they were and
\* the slot reserved, the run goes on with the next meeting (or date, or ends),
\* and the slot is never handed out again.
C7_FailedWriteKeepsSlot ==
    [][~dry_run =>
         /\ (pc = "write" /\ Len(outcome') > Len(outcome)
                /\ Uncommitted(outcome'[Len(outcome')])) =>
               /\ events' = events
               /\ available_slot \in reserved_slots'
               /\ IF ei < Len(meetings_to_reschedule)
                  THEN pc' = "search" /\ ei' = ei + 1
                  ELSE IF vi < Len(vacation_dates)
                  THEN pc' = "list" /\ vi' = vi + 1
                  ELSE pc' = "done"
         /\ \A k \in DOMAIN outcome :
               Uncommitted(outcome[k]) =>
                  /\ outcome[k].slot \in reserved_slots'
                  /\ Cardinality({i \in DOMAIN assigned' :
                                     assigned'[i].start = outcome[k].slot}) = 1]_vars

\* after a failed write the next meeting was searched from the same window
\* start, found that start reserved and took another slot; the stored meeting
\* still has its old time
C7_Witness ==
    /\ ~dry_run
    /\ \E k, m \in Resolved :
         /\ k < m
         /\ Uncommitted(outcome[k])
         /\ events[outcome[k].id].start = outcome[k].event.start
         /\ \E n \in DOMAIN outcome[m].searches :
              /\ outcome[m].searches[n].start_time = outcome[k].slot
              /\ outcome[k].slot \in outcome[m].searches[n].reserved
              /\ outcome[m].searches[n].slot = outcome[m].slot

\* C8: after validation and the timezone fetch, the run ends with every
\* selected meeting of every vacation date RESOLVED or UNRESOLVED, once each.
C8_EveryMeetingTerminal ==
    (pc = "done" /\ time_slot_end # None) =>
        /\ vi = Len(vacation_dates) + 1
        /\ Len(outcome) = Len(selected)
        /\ \A k \in DOMAIN outcome : outcome[k].id = selected[k]

\* the earliest free grid candidate of a search, if there is one
Earliest(s) ==
    LET free == Free(s)
    IN IF free = {} THEN None
       ELSE CHOOSE t \in free : \A u \in free : t <= u

\* C9: a search without provider failure returns the earliest grid candidate
\* passing all checks, and none only when no candidate passes them.
C9_EarliestCandidate ==
    \A s \in AllSearches : ~s.error => s.slot = Earliest(s)

\* a search returned a candidate after one that a busy event of the owner blocks
C9_Witness ==
    \E s \in AllSearches :
        /\ ~s.error
        /\ s.slot # None
        /\ \E t \in Grid(s) :
             /\ t < s.slot
             /\ \E i \in DOMAIN s.events :
                  /\ s.events[i].transparency # "transparent"
                  /\ OverlapsEvent(t, t + s.duration, s.events[i])

\* the searches of one meeting went through the acceptable dates in order, and
\* went on only from windows that gave no slot (having none free, or failing)
InOrder(ss) ==
    \A n \in DOMAIN ss :
        /\ n <= Len(acceptable_dates)
        /\ ss[n].date = acceptable_dates[n]
        /\ n < Len(ss) => /\ ss[n].slot = None
                          /\ ~ss[n].error => Free(ss[n]) = {}

\* C10: a meeting is placed on the first acceptable date, in the given order,
\* whose window has a free candidate, and is UNRESOLVED only when none has.
C10_FirstDateWithSlot ==
    /\ InOrder(searches)
    /\ \A k \in DOMAIN outcome :
         LET ss == outcome[k].searches
         IN /\ InOrder(ss)
            /\ ss # <<>>
            /\ outcome[k].state = "RESOLVED" =>
                  /\ ss[Len(ss)].slot = outcome[k].slot
                  /\ outcome[k].slot # None
            /\ outcome[k].state = "UNRESOLVED" =>
                  /\ Len(ss) = Len(acceptable_dates)
                  /\ \A n \in DOMAIN ss :
                        ss[n].slot = None /\ (~ss[n].error => Free(ss[n]) = {})

\* a meeting fell through a first date without a free candidate to the second
C10_Witness ==
    \E k \in Resolved :
        /\ Len(outcome[k].searches) = 2
        /\ ~outcome[k].searches[1].error
        /\ Grid(outcome[k].searches[1]) # {}
        /\ outcome[k].slot \div MinutesPerDay = acceptable_dates[2]

\* the acceptable dates of the run
AcceptableDates == {acceptable_dates[j] : j \in DOMAIN acceptable_dates}

\* C11: every assigned slot lies fully inside the time window of one acceptable
\* date: it starts no earlier than the window's start and start + duration is no
\* later than the window's end; so does every slot a search returned.
C11_InsideWindow ==
    /\ \A i \in DOMAIN assigned :
          \E new_date \in AcceptableDates :
              /\ Dt(new_date, time_slot_start) <= assigned[i].start
              /\ assigned[i].end <= Dt(new_date, time_slot_end)
    /\ \A k \in Resolved :
          \E new_date \in AcceptableDates :
              /\ Dt(new_date, time_slot_start) <= NewStart(k)
              /\ NewEnd(k) <= Dt(new_date, time_slot_end)

\* a meeting was resolved to a slot that ends exactly at the window's end, after
\* earlier candidates of the window were rejected
C11_Witness ==
    \E k \in Resolved :
        /\ NewEnd(k) = Dt(NewStart(k) \div MinutesPerDay, time_slot_end)
        /\ NewStart(k) > Dt(NewStart(k) \div MinutesPerDay, time_slot_start)

\* C12: no assigned slot overlaps the blackout interval [12:00, 13:00) of its
\* date; the test is half-open, a slot may end at 12:00 or start at 13:00.
C12_ClearOfLunch ==
    \A i \in DOMAIN assigned :
        LET new_date == assigned[i].start \div MinutesPerDay
        IN \/ assigned[i].end <= Dt(new_date, LunchStart)
           \/ assigned[i].start >= Dt(new_date, LunchEnd)

\* a window that opens before the blackout: the slot assigned starts at 13:00,
\* the first candidate clear of it
C12_Witness ==
    /\ time_slot_start < LunchStart
    /\ \E i \in DOMAIN assigned :
          assigned[i].start = Dt(assigned[i].start \div MinutesPerDay, LunchEnd)

\* original end - original start of a meeting, in seconds
OriginalSeconds(event) ==
    (event.end - event.start) * SecondsPerMinute + event.end_seconds

\* C13: for every RESOLVED meeting new end - new start equals original end -
\* original start, in the slot tested during the search and in the start and
\* end written to the provider.
C13_DurationPreserved ==
    \A k \in Resolved :
        /\ (NewEnd(k) - NewStart(k)) * SecondsPerMinute = OriginalSeconds(outcome[k].event)
        /\ \A n \in DOMAIN outcome[k].searches :
              outcome[k].searches[n].duration * SecondsPerMinute
                  = OriginalSeconds(outcome[k].event)
        /\ (outcome[k].committed /\ pc = "done"
               /\ \A j \in Resolved : j > k => outcome[j].event.id # outcome[k].event.id)
             => (events[outcome[k].event.id].end - events[outcome[k].event.id].start)
                    * SecondsPerMinute + events[outcome[k].event.id].end_seconds
                  = OriginalSeconds(outcome[k].event)

\* C14: every assigned start is the window's start on its date plus a whole
\* number (zero or more) of 15-minute steps.
C14_OnGrid ==
    \A i \in DOMAIN assigned :
        LET window_start == Dt(assigned[i].start \div MinutesPerDay, time_slot_start)
        IN /\ assigned[i].start >= window_start
           /\ (assigned[i].start - window_start) % Step = 0

\* a meeting whose duration is no multiple of the step was assigned a start
\* later than the window's start, after a candidate was rejected
C14_Witness ==
    \E k \in Resolved :
        /\ GetMeetingDuration(outcome[k].event) % Step # 0
        /\ NewStart(k) > Dt(NewStart(k) \div MinutesPerDay, time_slot_start)
        /\ \E i \in DOMAIN assigned : assigned[i].start = NewStart(k)

\* the slot starts chosen so far in the run
ChosenStarts == {assigned[i].start : i \in DOMAIN assigned}

\* C15: the ledger is empty when the run starts and only grows: after every
\* step it is a superset of what it was before, nothing is ever removed, and it
\* holds exactly the slot starts chosen so far, in a dry run and a live run.
C15_LedgerGrows ==
    /\ reserved_slots = {}
    /\ [][/\ reserved_slots \subseteq reserved_slots'
          /\ reserved_slots' = ChosenStarts'
          /\ reserved_slots' # reserved_slots
                => Len(assigned') = Len(assigned) + 1]_vars

\* the ledger holds the starts of two meetings at the end of a live run
C15_Witness ==
    /\ pc = "done"
    /\ ~dry_run
    /\ Cardinality(reserved_slots) = 2
    /\ reserved_slots = ChosenStarts

\* C16: every slot returned by a search is absent from the ledger when it is
\* chosen, so the 'already reserved' branch of main is never taken; the slot is
\* in the ledger before the next search starts and before any provider write
\* for it.
C16_FreshThenReserved ==
    /\ \A s \in AllSearches : s.slot # None => s.slot \notin s.reserved
    /\ (pc = "check" /\ available_slot # None) => available_slot \notin reserved_slots
    /\ \A k \in DOMAIN log_messages : log_messages[k] # "info: already reserved"
    /\ pc = "search" => \A s \in AllSearches : s.slot # None => s.slot \in reserved_slots
    /\ pc = "write" => available_slot \in reserved_slots
    /\ \A k \in DOMAIN calls : calls[k].op = "update" => calls[k].b \in reserved_slots

\* the second meeting of a live run is about to be written: its search saw the
\* first meeting's start in the ledger and returned another slot, now reserved
C16_Witness ==
    /\ pc = "write"
    /\ Len(assigned) = 2
    /\ available_slot \in reserved_slots
    /\ \E n \in DOMAIN searches :
          /\ searches[n].slot = available_slot
          /\ searches[n].reserved # {}
          /\ searches[n].start_time \in searches[n].reserved

\* the owner's busy (not transparent) events of search s that overlap [t, t + duration)
BusyEvents(s, t) ==
    {i \in DOMAIN s.events :
        /\ s.events[i].transparency # "transparent"
        /\ OverlapsEvent(t, t + s.duration, s.events[i])}

\* C17: no assigned slot was blocked when it was chosen: it overlaps no busy
\* event of the owner in the provider state the search listed, and the
\* free/busy query for exactly [slotStart, slotEnd) showed no busy attendee.
\* Transparent events never cause a rejection: every candidate passed over has
\* another cause.
C17_NotBlocked ==
    \A s \in AllSearches :
        /\ s.slot # None =>
              /\ BusyEvents(s, s.slot) = {}
              /\ s.calls[Len(s.calls)] = Call("freebusy", s.slot, s.slot + s.duration)
              /\ BusyCalendars(busy, s.attendees, s.slot, s.slot + s.duration) = {}
        /\ ~s.error =>
              \A t \in Grid(s) :
                  (t + s.duration <= s.end_time /\ (s.slot = None \/ t < s.slot)) =>
                      \/ t < Dt(s.date, LunchEnd) /\ t + s.duration > Dt(s.date, LunchStart)
                      \/ t \in s.reserved
                      \/ BusyEvents(s, t) # {}
                      \/ BusyCalendars(busy, s.attendees, t, t + s.duration) # {}

\* a search returned a slot that overlaps a transparent event, after it had
\* passed over a candidate blocked by a busy event or a busy attendee
C17_Witness ==
    \E s \in AllSearches :
        /\ s.slot # None
        /\ s.slot > s.start_time
        /\ \E i \in DOMAIN s.events :
              /\ s.events[i].transparency = "transparent"
              /\ OverlapsEvent(s.slot, s.slot + s.duration, s.events[i])

\* the free/busy queries of search s (its first provider call is the listing)
Queries(s) == {k \in DOMAIN s.calls : k > 1}

\* C18: a free/busy query is issued only for a candidate that passed every
\* local check: it ends inside the window, is clear of the blackout, is not in
\* the ledger and overlaps no busy event of the owner; and a search queries a
\* candidate at most once.
C18_QueryAfterLocalChecks ==
    \A s \in AllSearches :
        /\ s.calls[1].op = "list"
        /\ \A k \in Queries(s) :
              LET slot_start == s.calls[k].a
                  slot_end == s.calls[k].b
              IN /\ s.calls[k].op = "freebusy"
                 /\ slot_start \in Grid(s)
                 /\ slot_end = slot_start + s.duration
                 /\ slot_end <= s.end_time
                 /\ slot_end <= Dt(s.date, LunchStart) \/ slot_start >= Dt(s.date, LunchEnd)
                 /\ slot_start \notin s.reserved
                 /\ BusyEvents(s, slot_start) = {}
                 /\ \A j \in Queries(s) : j < k => s.calls[j].a < slot_start

\* a search issued two queries, one per candidate, and none for a candidate
\* that a local check had rejected
C18_Witness ==
    \E s \in AllSearches :
        /\ Cardinality(Queries(s)) >= 2
        /\ \E t \in Grid(s) :
              /\ t < s.calls[2].a
              /\ t \in s.reserved \/ BusyEvents(s, t) # {}
              /\ \A k \in Queries(s) : s.calls[k].a # t

\* the slots of the meetings that were RESOLVED before the k-th one was processed
SlotsBefore(k) == {outcome[j].slot : j \in {r \in Resolved : r < k}}

\* C19: with a provider state that does not change during the run (a dry run),
\* the slot of a meeting depends only on the meetings processed before it:
\* every search for it sees the provider state of the start of the run and a
\* ledger of exactly the slots given to earlier meetings (none for the first
\* meeting, which is served as if it were alone); and a run whose meeting
\* sequence extends that of another run gives the shared prefix the same slots.
C19_EarlierFirst ==
    /\ dry_run =>
          \A k \in DOMAIN outcome :
              \A n \in DOMAIN outcome[k].searches :
                  /\ outcome[k].searches[n].reserved = SlotsBefore(k)
                  /\ outcome[k].searches[n].events = events
    /\ (first_run # <<>> /\ first_run[1].undisturbed /\ Undisturbed) =>
          /\ \A k \in DOMAIN outcome :
                k <= Len(first_run[1].choices) =>
                    Choices(outcome)[k] = first_run[1].choices[k]
          /\ pc = "done" => Len(outcome) >= Len(first_run[1].choices)

\* the second run went on to a meeting of the added vacation date after it had
\* given the meetings of the first run the slots they had there
C19_Witness ==
    /\ dry_run
    /\ first_run # <<>>
    /\ first_run[1].undisturbed
    /\ Undisturbed
    /\ pc = "done"
    /\ Len(first_run[1].choices) >= 1
    /\ first_run[1].choices[1].state = "RESOLVED"
    /\ Len(outcome) > Len(first_run[1].choices)
    /\ outcome[Len(outcome)].state = "RESOLVED"
    /\ outcome[Len(outcome)].searches[1].reserved # {}

\* the provider updates issued for meeting id so far in the run
Updates(id) == {k \in DOMAIN calls : calls[k].op = "update" /\ calls[k].a = id}

\* C20: in a live run the provider update is invoked at most once for each
\* meeting id, whatever the vacation dates and the acceptable dates are.
C20_RelocatedOnce ==
    \A id \in EventIds : Cardinality(Updates(id)) <= 1

====
